---------------------------- MODULE Spec2Model ----------------------------
(***************************************************************************)
(* Theme store of themecn (zustand store in lib/store.ts): two palettes    *)
(* (light, dark) of HSL colours, fonts, border radius, dark-mode flag and   *)
(* presets, mutated by the store's operations, with the CSS custom-property *)
(* sink and the shareable-link URL as the two side effects.                 *)
(*                                                                          *)
(* A colour string "H S% L%" is the triple <<h, s, l>> with the hue kept in  *)
(* hundredths of a degree (the built-in destructive colour has hue 357.18), *)
(* so two colour strings are equal exactly when their triples are equal.    *)
(* A hex colour "#rrggbb" is the triple <<r, g, b>> of its channels.        *)
(***************************************************************************)
EXTENDS Integers, Sequences, FiniteSets, TLC

\* ------------------------------------------------------------------ bounds
\* number of store operations in one run
MaxOps == 3

\* ------------------------------------------------------------ arithmetic
Min(a, b) == IF a < b THEN a ELSE b

Max(a, b) == IF a > b THEN a ELSE b

\* Math.round of the non-negative rational p / q
Round(p, q) == (2 * p + q) \div (2 * q)

\* hundredths of a degree per degree of hue
HueScale == 100

\* the colour string `${h} ${s}% ${l}%` for a hue in whole degrees
HSL(h, s, l) == <<h * HueScale, s, l>>

\* Number.parseInt(hStr, 10) on the hue part of a colour string
ParseIntHue(c) == (c[1] \div HueScale) * HueScale

\* --------------------------------------------------- colour conversions
\* hexToHSL (lib/color-utils.ts): hex -> "H S% L%", components rounded to
\* integers, the hue kept in [0, 360)
hexToHSL(hex) ==
    LET r == hex[1]
        g == hex[2]
        b == hex[3]
        mx == Max(r, Max(g, b))
        mn == Min(r, Min(g, b))
        d == mx - mn
        sum == mx + mn
        L == Round(100 * sum, 510)
        den == IF sum > 255 THEN 510 - sum ELSE sum
        S == IF d = 0 THEN 0 ELSE Round(100 * d, den)
        num == IF mx = r THEN (g - b) + (IF g < b THEN 6 * d ELSE 0)
               ELSE IF mx = g THEN (b - r) + 2 * d
               ELSE (r - g) + 4 * d
        H == IF d = 0 THEN 0 ELSE Round(60 * num, d) % 360
    IN  HSL(H, S, L)

\* hslToHex (lib/color-utils.ts): "H S% L%" -> hex, channels rounded to
\* 0..255; chroma c, second component x and offset m over the common
\* denominator 1200000
hslToHex(c) ==
    LET h == (c[1] \div HueScale) % 360
        s == c[2]
        l == c[3]
        A == 100 - (IF 2 * l >= 100 THEN 2 * l - 100 ELSE 100 - 2 * l)
        hm == h % 120
        F == 60 - (IF hm >= 60 THEN hm - 60 ELSE 60 - hm)
        cn == A * s * 120
        xn == A * s * F * 2
        mn == l * 12000 - A * s * 60
        sector == h \div 60
        rgb == IF sector = 0 THEN <<cn, xn, 0>>
               ELSE IF sector = 1 THEN <<xn, cn, 0>>
               ELSE IF sector = 2 THEN <<0, cn, xn>>
               ELSE IF sector = 3 THEN <<0, xn, cn>>
               ELSE IF sector = 4 THEN <<xn, 0, cn>>
               ELSE <<cn, 0, xn>>
    IN  <<Round(255 * (rgb[1] + mn), 1200000),
          Round(255 * (rgb[2] + mn), 1200000),
          Round(255 * (rgb[3] + mn), 1200000)>>

\* formatToOklch (lib/color-utils.ts): one-way "H S% L%" -> "oklch(L C H)",
\* lightness l/100, chroma proportional to the saturation, hue carried over
formatToOklch(c) == <<"oklch", c[3], 3 * c[2], c[1]>>

\* compactHSL: "120 50% 75%" -> "120,50,75"
compactHSL(c) == <<"H,S,L", c[1], c[2], c[3]>>

\* ------------------------------------------------------ contrast resolver
\* calculateContrastingColor (lib/color-utils.ts): a light foreground on a
\* background below the legibility threshold, a dark one otherwise; the
\* muted role gets a softer, mid-lightness label colour
calculateContrastingColor(c, colorType) ==
    IF colorType = "mutedForeground"
    THEN IF c[3] < 50 THEN <<c[1], 15, 65>> ELSE <<c[1], 30, 45>>
    ELSE IF c[3] < 50 THEN <<c[1], 10, 95>> ELSE <<c[1], 10, 10>>

\* getContrastHSL (lib/color-utils.ts): the contrast resolver, default role
getContrastHSL(c) == calculateContrastingColor(c, "default")

\* ------------------------------------------------- chart series generator
\* generateChartColors, mutated: the dark ramp uses the clamps of the ramp
\* that updateThemeColor writes inline (75 / 85 / 25 / 15)
generateChartColors_InlineClamps(primary, secondary, accent, isDark) ==
    LET h == primary[1]
        s == primary[2]
        l == primary[3]
    IN  IF isDark
        THEN [chart1 |-> primary,
              chart2 |-> <<h, Min(s + 5, 90), Min(l + 15, 75)>>,
              chart3 |-> <<h, Min(s + 10, 95), Min(l + 25, 85)>>,
              chart4 |-> <<h, Max(s - 10, 40), Max(l - 15, 25)>>,
              chart5 |-> <<h, Max(s - 20, 30), Max(l - 25, 15)>>]
        ELSE [chart1 |-> primary,
              chart2 |-> <<h, Max(s - 15, 30), Min(l + 15, 75)>>,
              chart3 |-> <<h, Max(s - 30, 20), Min(l + 25, 85)>>,
              chart4 |-> <<h, Min(s + 10, 90), Max(l - 15, 25)>>,
              chart5 |-> <<h, Min(s + 5, 85), Max(l - 25, 20)>>]

\* generateChartColors, mutated: the third step borrows the accent's hue
generateChartColors_AccentHue(primary, secondary, accent, isDark) ==
    LET h == primary[1]
        s == primary[2]
        l == primary[3]
    IN  IF isDark
        THEN [chart1 |-> primary,
              chart2 |-> <<h, Min(s + 5, 90), Min(l + 15, 70)>>,
              chart3 |-> <<accent[1], Min(s + 10, 95), Min(l + 25, 80)>>,
              chart4 |-> <<h, Max(s - 10, 40), Max(l - 15, 30)>>,
              chart5 |-> <<h, Max(s - 20, 30), Max(l - 25, 20)>>]
        ELSE [chart1 |-> primary,
              chart2 |-> <<h, Max(s - 15, 30), Min(l + 15, 75)>>,
              chart3 |-> <<accent[1], Max(s - 30, 20), Min(l + 25, 85)>>,
              chart4 |-> <<h, Min(s + 10, 90), Max(l - 15, 25)>>,
              chart5 |-> <<h, Min(s + 5, 85), Max(l - 25, 20)>>]

\* generateChartColors: the five-step monochromatic ramp around primary
generateChartColors(primary, secondary, accent, isDark) ==
    LET h == primary[1]
        s == primary[2]
        l == primary[3]
    IN  IF isDark
        THEN [chart1 |-> primary,
              chart2 |-> <<h, Min(s + 5, 90), Min(l + 15, 70)>>,
              chart3 |-> <<h, Min(s + 10, 95), Min(l + 25, 80)>>,
              chart4 |-> <<h, Max(s - 10, 40), Max(l - 15, 30)>>,
              chart5 |-> <<h, Max(s - 20, 30), Max(l - 25, 20)>>]
        ELSE [chart1 |-> primary,
              chart2 |-> <<h, Max(s - 15, 30), Min(l + 15, 75)>>,
              chart3 |-> <<h, Max(s - 30, 20), Min(l + 25, 85)>>,
              chart4 |-> <<h, Min(s + 10, 90), Max(l - 15, 25)>>,
              chart5 |-> <<h, Min(s + 5, 85), Max(l - 25, 20)>>]

\* { ...a, ...b }: the keys of both, b's value where both have the key
Spread(a, b) == b @@ a

\* ------------------------------------------------------- built-in default
\* defaultTheme.colors
defaultColors ==
    [background |-> HSL(0, 0, 100),
     foreground |-> HSL(291, 10, 4),
     card |-> HSL(0, 0, 100),
     cardForeground |-> HSL(291, 10, 4),
     popover |-> HSL(0, 0, 100),
     popoverForeground |-> HSL(291, 10, 4),
     primary |-> HSL(291, 80, 45),
     primaryForeground |-> HSL(291, 10, 95),
     secondary |-> HSL(291, 30, 85),
     secondaryForeground |-> HSL(291, 30, 10),
     muted |-> HSL(291, 30, 85),
     mutedForeground |-> HSL(291, 30, 45),
     accent |-> HSL(291, 50, 75),
     accentForeground |-> HSL(291, 50, 10),
     destructive |-> <<35718, 100, 45>>,
     border |-> HSL(291, 30, 80),
     input |-> HSL(291, 30, 80),
     ring |-> HSL(291, 80, 45),
     chart1 |-> HSL(291, 80, 45),
     chart2 |-> HSL(291, 70, 60),
     chart3 |-> HSL(291, 60, 70),
     chart4 |-> HSL(291, 85, 30),
     chart5 |-> HSL(291, 85, 20),
     sidebar |-> HSL(291, 30, 85),
     sidebarForeground |-> HSL(291, 30, 10),
     sidebarPrimary |-> HSL(291, 80, 45),
     sidebarPrimaryForeground |-> HSL(291, 10, 95),
     sidebarAccent |-> HSL(291, 50, 75),
     sidebarAccentForeground |-> HSL(291, 50, 10),
     sidebarBorder |-> HSL(291, 30, 80),
     sidebarRing |-> HSL(291, 80, 45)]

\* defaultTheme.darkColors
defaultDarkColors ==
    [background |-> HSL(291, 40, 8),
     foreground |-> HSL(291, 10, 95),
     card |-> HSL(291, 40, 12),
     cardForeground |-> HSL(291, 10, 95),
     popover |-> HSL(291, 40, 12),
     popoverForeground |-> HSL(291, 10, 95),
     primary |-> HSL(291, 75, 50),
     primaryForeground |-> HSL(291, 10, 95),
     secondary |-> HSL(291, 30, 15),
     secondaryForeground |-> HSL(291, 30, 95),
     muted |-> HSL(291, 30, 15),
     mutedForeground |-> HSL(291, 15, 65),
     accent |-> HSL(291, 50, 25),
     accentForeground |-> HSL(291, 50, 95),
     destructive |-> <<35718, 100, 45>>,
     border |-> HSL(291, 40, 25),
     input |-> HSL(291, 40, 25),
     ring |-> HSL(291, 75, 50),
     chart1 |-> HSL(291, 75, 50),
     chart2 |-> HSL(291, 80, 65),
     chart3 |-> HSL(291, 85, 75),
     chart4 |-> HSL(291, 65, 35),
     chart5 |-> HSL(291, 50, 25),
     sidebar |-> HSL(291, 40, 8),
     sidebarForeground |-> HSL(291, 10, 95),
     sidebarPrimary |-> HSL(291, 75, 50),
     sidebarPrimaryForeground |-> HSL(291, 10, 95),
     sidebarAccent |-> HSL(291, 50, 25),
     sidebarAccentForeground |-> HSL(291, 50, 95),
     sidebarBorder |-> HSL(291, 40, 25),
     sidebarRing |-> HSL(291, 75, 50)]

\* the fixed, closed set of semantic role keys (ThemeColors)
Roles == DOMAIN defaultColors

\* the five seed roles
SeedRoles == {"background", "foreground", "primary", "secondary", "accent"}

\* defaultTheme.fonts
defaultFonts == [heading |-> "Geist", body |-> "Geist"]

\* defaultTheme.borderRadius (rem, as written in the source)
defaultBorderRadius == "0.5"

\* defaultTheme.predefinedThemes: the single preset "Default"
defaultPredefinedThemes ==
    << [name |-> "Default",
        colors |-> [background |-> <<255, 255, 255>>,
                    foreground |-> <<10, 9, 15>>,
                    primary |-> <<122, 59, 224>>,
                    secondary |-> <<219, 210, 245>>,
                    accent |-> <<196, 139, 234>>,
                    chart1 |-> <<122, 59, 224>>,
                    chart2 |-> <<154, 80, 229>>,
                    chart3 |-> <<185, 114, 232>>,
                    chart4 |-> <<85, 36, 218>>,
                    chart5 |-> <<48, 12, 190>>],
        fonts |-> [heading |-> "Geist", body |-> "Geist"]] >>


\* the font names passed to updateFont
FontNames == {"Inter"}

\* the radius (rem) passed to updateBorderRadius
BorderRadii == {"8"}

\* the role's value, or JavaScript's undefined when the palette lacks it
Get(p, k) == IF k \in DOMAIN p THEN p[k] ELSE "undefined"

\* ---------------------------------------------------- CSS variable sink
\* the custom property applyCSSVariables writes for each role
CssName ==
    [background |-> "--background",
     foreground |-> "--foreground",
     card |-> "--card",
     cardForeground |-> "--card-foreground",
     popover |-> "--popover",
     popoverForeground |-> "--popover-foreground",
     primary |-> "--primary",
     primaryForeground |-> "--primary-foreground",
     secondary |-> "--secondary",
     secondaryForeground |-> "--secondary-foreground",
     muted |-> "--muted",
     mutedForeground |-> "--muted-foreground",
     accent |-> "--accent",
     accentForeground |-> "--accent-foreground",
     destructive |-> "--destructive",
     border |-> "--border",
     input |-> "--input",
     ring |-> "--ring",
     chart1 |-> "--chart-1",
     chart2 |-> "--chart-2",
     chart3 |-> "--chart-3",
     chart4 |-> "--chart-4",
     chart5 |-> "--chart-5",
     sidebar |-> "--sidebar",
     sidebarForeground |-> "--sidebar-foreground",
     sidebarPrimary |-> "--sidebar-primary",
     sidebarPrimaryForeground |-> "--sidebar-primary-foreground",
     sidebarAccent |-> "--sidebar-accent",
     sidebarAccentForeground |-> "--sidebar-accent-foreground",
     sidebarBorder |-> "--sidebar-border",
     sidebarRing |-> "--sidebar-ring"]

\* the custom properties of the sink
CssNames == {CssName[k] : k \in Roles} \cup {"--radius", "--font-heading", "--font-body"}

\* the role each colour property stands for
CssRole == [n \in {CssName[k] : k \in Roles} |-> CHOOSE k \in Roles : CssName[k] = n]

RoleOf(n) == CssRole[n]

\* the style of document.documentElement before any property is set
emptySink == [n \in CssNames |-> ""]

\* the value a colour takes in the sink (undefined has no conversion)
SinkColor(v) == IF v = "undefined" THEN v ELSE formatToOklch(v)

\* applyCSSVariables: every role of the palette, converted, then the radius
\* and the two fonts; nothing when there is no document
applyCSSVariables(snk, colors, borderRadius, fonts, hasDocument) ==
    IF ~hasDocument THEN snk
    ELSE [n \in CssNames |->
            IF n = "--radius" THEN <<borderRadius, "rem">>
            ELSE IF n = "--font-heading" THEN fonts.heading
            ELSE IF n = "--font-body" THEN fonts.body
            ELSE SinkColor(Get(colors, RoleOf(n)))]

\* the five direct writes of updateThemeColor in dark mode: the chart
\* colours of the dark palette, as stored (no conversion)
DirectChartWrites(snk, darkColors) ==
    [n \in CssNames |->
        IF n \in {"--chart-1", "--chart-2", "--chart-3", "--chart-4", "--chart-5"}
        THEN darkColors[RoleOf(n)]
        ELSE snk[n]]

\* -------------------------------------------------- shareable-link codec
EmptyObject == [x \in {} |-> x]

\* the six colours of one colour group of the token
ColorGroup(p) ==
    [bg |-> IF "background" \in DOMAIN p THEN compactHSL(p.background) ELSE "undefined",
     fg |-> IF "foreground" \in DOMAIN p THEN compactHSL(p.foreground) ELSE "undefined",
     p |-> IF "primary" \in DOMAIN p THEN compactHSL(p.primary) ELSE "undefined",
     s |-> IF "secondary" \in DOMAIN p THEN compactHSL(p.secondary) ELSE "undefined",
     a |-> IF "accent" \in DOMAIN p THEN compactHSL(p.accent) ELSE "undefined",
     d |-> IF "destructive" \in DOMAIN p THEN compactHSL(p.destructive) ELSE "undefined"]

\* encodeThemeState: the minimal theme object; btoa(JSON.stringify(..)) is
\* one-to-one on these objects, so the token is the object itself
encodeThemeState(theme) ==
    LET light == [l |-> ColorGroup(theme.colors)]
        dark == IF theme.isDarkMode
                THEN [d |-> ColorGroup(theme.darkColors)] ELSE EmptyObject
        f == IF theme.fonts.heading # "Geist" \/ theme.fonts.body # "Geist"
             THEN [f |-> IF theme.fonts.heading = "Geist"
                         THEN <<"null", theme.fonts.body>>
                         ELSE IF theme.fonts.body = "Geist"
                         THEN <<theme.fonts.heading>>
                         ELSE <<theme.fonts.heading, theme.fonts.body>>]
             ELSE EmptyObject
        r == IF theme.borderRadius # "8"
             THEN [r |-> theme.borderRadius] ELSE EmptyObject
        dm == IF theme.isDarkMode THEN [dm |-> 1] ELSE EmptyObject
    IN  light @@ dark @@ f @@ r @@ dm

\* updateThemeUrl: the theme parameter of the URL after the call; the URL
\* is left alone when there is no window
updateThemeUrl(u, theme, hasWindow) ==
    IF ~hasWindow THEN u ELSE encodeThemeState(theme)


\* --------------------------------------------------- dark-mode derivation
\* deriveDarkModeColors: a dark palette derived from a light one
deriveDarkModeColors(lightColors) ==
    LET primaryH == lightColors.primary[1]
        primaryS == lightColors.primary[2]
        primaryL == lightColors.primary[3]
        secondaryH == lightColors.secondary[1]
        secondaryS == lightColors.secondary[2]
        secondaryL == lightColors.secondary[3]
        accentH == lightColors.accent[1]
        accentS == lightColors.accent[2]
        accentL == lightColors.accent[3]
        background == <<primaryH, 30, 8>>
        card == <<primaryH, 30, 12>>
        foreground == <<primaryH, 10, 95>>
        primary == <<primaryH, Max(primaryS, 60), Min(Max(primaryL, 50), 60)>>
        primaryForeground == calculateContrastingColor(primary, "default")
        secondary == <<secondaryH, Max(secondaryS, 10),
                       Max(15, Min(25, secondaryL - 70))>>
        accent == <<accentH, Max(accentS, 60), Min(Max(accentL - 20, 40), 60)>>
        accentForeground == calculateContrastingColor(accent, "default")
        border == <<primaryH, 25, 18>>
        chartColors == generateChartColors(primary, secondary, accent, TRUE)
    IN  Spread(lightColors,
          [background |-> background,
           card |-> card,
           popover |-> card,
           foreground |-> foreground,
           cardForeground |-> foreground,
           popoverForeground |-> foreground,
           primary |-> primary,
           ring |-> primary,
           primaryForeground |-> primaryForeground,
           secondary |-> secondary,
           secondaryForeground |-> calculateContrastingColor(secondary, "default"),
           muted |-> secondary,
           mutedForeground |-> <<secondaryH, 15, 65>>,
           accent |-> accent,
           accentForeground |-> accentForeground,
           border |-> border,
           input |-> border,
           sidebar |-> background,
           sidebarForeground |-> foreground,
           sidebarPrimary |-> primary,
           sidebarPrimaryForeground |-> primaryForeground,
           sidebarAccent |-> accent,
           sidebarAccentForeground |-> accentForeground,
           sidebarBorder |-> border,
           sidebarRing |-> primary,
           chart1 |-> chartColors.chart1,
           chart2 |-> chartColors.chart2,
           chart3 |-> chartColors.chart3,
           chart4 |-> chartColors.chart4,
           chart5 |-> chartColors.chart5])

\* ------------------------------------------------ seed propagation engine
\* updateThemeColor, branch key = "primary" in dark mode: the roles the
\* branch assigns, re-synthesised around the new primary
DarkPrimaryEntries(hslValue) ==
    LET h == ParseIntHue(hslValue)
        s == hslValue[2]
        l == hslValue[3]
        primaryForeground == IF l < 40 THEN HSL(0, 0, 100) ELSE <<h, 10, 95>>
        darkSecondaryH == h
        darkSecondaryS == Max(Min(s - 40, 30), 7)
        darkSecondaryL == Max(Min(l - 20, 30), 15)
        darkSecondaryHSLValue == <<darkSecondaryH, darkSecondaryS, darkSecondaryL>>
        darkAccentH == (h + 30 * HueScale) % (360 * HueScale)
        darkAccentS == Min(s + 5, 80)
        darkAccentL == Min(l + 15, 65)
        darkAccentHSLValue == <<darkAccentH, darkAccentS, darkAccentL>>
        border == <<darkSecondaryH, darkSecondaryS + 5, Min(darkSecondaryL + 10, 30)>>
    IN    [primary |-> hslValue,
           ring |-> hslValue,
           sidebarPrimary |-> hslValue,
           primaryForeground |-> primaryForeground,
           sidebarPrimaryForeground |-> primaryForeground,
           secondary |-> darkSecondaryHSLValue,
           muted |-> darkSecondaryHSLValue,
           secondaryForeground |-> <<darkSecondaryH, 10, 95>>,
           mutedForeground |-> <<darkSecondaryH, 15, 65>>,
           accent |-> darkAccentHSLValue,
           accentForeground |-> <<darkAccentH, 50, 10>>,
           sidebarAccent |-> darkAccentHSLValue,
           sidebarAccentForeground |-> <<darkAccentH, 50, 10>>,
           border |-> border,
           input |-> border,
           sidebarBorder |-> border,
           chart1 |-> hslValue,
           chart2 |-> <<h, Min(s + 5, 90), Min(l + 15, 75)>>,
           chart3 |-> <<h, Min(s + 10, 95), Min(l + 25, 85)>>,
           chart4 |-> <<h, Max(s - 10, 40), Max(l - 15, 25)>>,
           chart5 |-> <<h, Max(s - 20, 30), Max(l - 25, 15)>>]

\* the dark palette after the edit, mutated: secondary and accent are left
\* as they were (no re-synthesis)
DarkPrimaryEdit_KeepSecondaryAccent(darkColors0, hslValue) ==
    LET e == DarkPrimaryEntries(hslValue)
    IN  Spread(darkColors0,
               [k \in DOMAIN e \ {"secondary", "accent"} |-> e[k]])

\* the dark palette after editing primary in dark mode
DarkPrimaryEdit(darkColors0, hslValue) ==
    Spread(darkColors0, DarkPrimaryEntries(hslValue))

\* the five chart roles of a generated ramp, as palette entries
ChartEntries(chartColors) ==
    [chart1 |-> chartColors.chart1,
     chart2 |-> chartColors.chart2,
     chart3 |-> chartColors.chart3,
     chart4 |-> chartColors.chart4,
     chart5 |-> chartColors.chart5]

\* the dark chart series regenerated from the dark palette's own seeds, as
\* the light-mode branches of updateThemeColor do before touching them
DarkChartRefresh(darkColors) ==
    Spread(darkColors,
           ChartEntries(generateChartColors(darkColors.primary, darkColors.secondary,
                                            darkColors.accent, TRUE)))

\* the light palette after editing primary, mutated: secondary and accent
\* are re-synthesised from the new primary as the dark-mode branch does
LightPrimaryEdit_Resynthesise(colors0, hslValue) ==
    Spread(colors0,
           [primary |-> hslValue,
            secondary |-> DarkPrimaryEntries(hslValue).secondary,
            accent |-> DarkPrimaryEntries(hslValue).accent])

\* the light palette after editing primary, mutated: the new value is copied
\* into the foreground roles as well, with no contrast resolution
LightPrimaryEdit_ForegroundCopied(colors0, hslValue) ==
    Spread(Spread(colors0,
             [primary |-> hslValue,
              primaryForeground |-> hslValue,
              ring |-> hslValue,
              sidebarPrimary |-> hslValue,
              sidebarPrimaryForeground |-> hslValue,
              sidebarRing |-> hslValue]),
           ChartEntries(generateChartColors(hslValue, colors0.secondary,
                                            colors0.accent, FALSE)))

\* updateThemeColor, branch key = "primary" outside dark mode: the light
\* palette, with its chart series regenerated from the new primary
LightPrimaryEdit(colors0, hslValue) ==
    Spread(Spread(colors0,
             [primary |-> hslValue,
              primaryForeground |-> calculateContrastingColor(hslValue, "default"),
              ring |-> hslValue,
              sidebarPrimary |-> hslValue,
              sidebarPrimaryForeground |-> calculateContrastingColor(hslValue, "default"),
              sidebarRing |-> hslValue]),
           ChartEntries(generateChartColors(hslValue, colors0.secondary,
                                            colors0.accent, FALSE)))

\* the dark secondary written by a light-mode secondary edit, mutated: the
\* saturation offset is applied without its floor
DarkSecondaryOf_NoFloor(hslValue) ==
    <<hslValue[1], hslValue[2] - 20, Max(15, Min(25, hslValue[3] - 70))>>

\* the dark secondary written by a light-mode secondary edit: same hue,
\* saturation - 20 (floor 10), lightness - 70 clamped to [15, 25]
DarkSecondaryOf(hslValue) ==
    <<hslValue[1], Max(hslValue[2] - 20, 10), Max(15, Min(25, hslValue[3] - 70))>>

\* the edit of any other role, mutated: only the light palette is written
OtherRoleEdit_LightOnly(key, hslValue, colors0, darkColors0) ==
    [colors |-> Spread(colors0, key :> hslValue),
     darkColors |-> darkColors0]

\* updateThemeColor: the edit of a role that is none of the five seeds, the
\* colour written under that key in both palettes
OtherRoleEdit(key, hslValue, colors0, darkColors0) ==
    [colors |-> Spread(colors0, key :> hslValue),
     darkColors |-> Spread(darkColors0, key :> hslValue)]

\* updateThemeColor: the two palettes after the edit of one role
UpdateThemeColorPalettes(key, hslValue, colors0, darkColors0, isDark) ==
    IF key = "primary" /\ isDark
    THEN [colors |-> colors0, darkColors |-> DarkPrimaryEdit(darkColors0, hslValue)]
    ELSE IF key = "background"
    THEN [colors |-> Spread(colors0, [background |-> hslValue, card |-> hslValue,
                                      popover |-> hslValue]),
          darkColors |-> IF isDark
                         THEN Spread(darkColors0,
                                     [background |-> hslValue, card |-> hslValue,
                                      popover |-> hslValue, sidebar |-> hslValue])
                         ELSE darkColors0]
    ELSE IF key = "foreground"
    THEN [colors |-> Spread(colors0, [foreground |-> hslValue,
                                      cardForeground |-> hslValue,
                                      popoverForeground |-> hslValue]),
          darkColors |-> Spread(darkColors0,
                                [foreground |-> getContrastHSL(hslValue),
                                 cardForeground |-> getContrastHSL(hslValue),
                                 popoverForeground |-> getContrastHSL(hslValue)])]
    ELSE IF key = "primary"
    THEN [colors |-> LightPrimaryEdit(colors0, hslValue),
          darkColors |->
            Spread(DarkChartRefresh(darkColors0),
                   [primary |-> hslValue,
                    primaryForeground |-> calculateContrastingColor(hslValue, "default"),
                    ring |-> hslValue,
                    sidebarPrimary |-> hslValue,
                    sidebarPrimaryForeground |->
                        calculateContrastingColor(hslValue, "default"),
                    sidebarRing |-> hslValue])]
    ELSE IF key = "secondary"
    THEN [colors |->
            Spread(Spread(colors0,
                     [secondary |-> hslValue,
                      secondaryForeground |-> calculateContrastingColor(hslValue, "default"),
                      muted |-> hslValue,
                      mutedForeground |->
                          calculateContrastingColor(hslValue, "mutedForeground"),
                      sidebar |-> hslValue,
                      sidebarForeground |-> calculateContrastingColor(hslValue, "default")]),
                   ChartEntries(generateChartColors(colors0.primary, hslValue,
                                                    colors0.accent, FALSE))),
          darkColors |->
            IF isDark THEN darkColors0
            ELSE LET secondary == DarkSecondaryOf(hslValue)
                 IN  Spread(DarkChartRefresh(darkColors0),
                       [secondary |-> secondary,
                        secondaryForeground |->
                            calculateContrastingColor(secondary, "default"),
                        muted |-> secondary,
                        mutedForeground |->
                            calculateContrastingColor(secondary, "mutedForeground")])]
    ELSE IF key = "accent"
    THEN [colors |->
            Spread(Spread(colors0,
                     [accent |-> hslValue,
                      accentForeground |-> calculateContrastingColor(hslValue, "default"),
                      sidebarAccent |-> hslValue,
                      sidebarAccentForeground |->
                          calculateContrastingColor(hslValue, "default")]),
                   ChartEntries(generateChartColors(colors0.primary, colors0.secondary,
                                                    hslValue, FALSE))),
          darkColors |->
            IF isDark THEN darkColors0
            ELSE Spread(DarkChartRefresh(darkColors0),
                   [accent |-> hslValue,
                    accentForeground |-> calculateContrastingColor(hslValue, "default"),
                    sidebarAccent |-> hslValue,
                    sidebarAccentForeground |->
                        calculateContrastingColor(hslValue, "default")])]
    ELSE OtherRoleEdit(key, hslValue, colors0, darkColors0)


\* ------------------------------------------------------ palette synthesis
\* generateHarmonyColors: the light roles synthesised from the base colour
HarmonyLightEntries(primaryHSL) ==
    LET h == ParseIntHue(primaryHSL)
        s == primaryHSL[2]
        l == primaryHSL[3]
        primaryH == h
        primaryS == Min(s + 20, 85)
        primaryL == Max(Min(l, 60), 45)
        primaryHSLValue == <<primaryH, primaryS, primaryL>>
        secondaryH == primaryH
        secondaryS == Max(Min(primaryS - 60, 25), 5)
        secondaryL == Min(primaryL + 40, 96)
        secondaryHSLValue == <<secondaryH, secondaryS, secondaryL>>
        accentH == primaryH
        accentS == Max(Min(primaryS - 30, 55), 30)
        accentL == Min(primaryL + 30, 88)
        accentHSLValue == <<accentH, accentS, accentL>>
        bgHSLValue == HSL(0, 0, 100)
        fgHSLValue == <<primaryH, 10, 4>>
        border == <<secondaryH, secondaryS, Max(secondaryL - 10, 80)>>
        lightChartColors == generateChartColors(primaryHSLValue, secondaryHSLValue,
                                                accentHSLValue, FALSE)
    IN    [background |-> bgHSLValue,
           foreground |-> fgHSLValue,
           primary |-> primaryHSLValue,
           secondary |-> secondaryHSLValue,
           accent |-> accentHSLValue,
           card |-> bgHSLValue,
           popover |-> bgHSLValue,
           muted |-> secondaryHSLValue,
           primaryForeground |-> calculateContrastingColor(primaryHSLValue, "default"),
           secondaryForeground |-> calculateContrastingColor(secondaryHSLValue, "default"),
           accentForeground |-> calculateContrastingColor(accentHSLValue, "default"),
           cardForeground |-> fgHSLValue,
           popoverForeground |-> fgHSLValue,
           mutedForeground |-> <<secondaryH, 30, 45>>,
           border |-> border,
           input |-> border,
           ring |-> primaryHSLValue,
           sidebar |-> secondaryHSLValue,
           sidebarForeground |-> calculateContrastingColor(secondaryHSLValue, "default"),
           sidebarPrimary |-> primaryHSLValue,
           sidebarPrimaryForeground |->
               calculateContrastingColor(primaryHSLValue, "default"),
           sidebarAccent |-> accentHSLValue,
           sidebarAccentForeground |->
               calculateContrastingColor(accentHSLValue, "default"),
           sidebarBorder |-> border,
           sidebarRing |-> primaryHSLValue,
           chart1 |-> lightChartColors.chart1,
           chart2 |-> lightChartColors.chart2,
           chart3 |-> lightChartColors.chart3,
           chart4 |-> lightChartColors.chart4,
           chart5 |-> lightChartColors.chart5]

\* the new light palette, mutated: primary is the base colour itself, its
\* saturation not raised and its lightness not clamped
HarmonyLight_BasePrimary(colors0, primaryHSL) ==
    Spread(colors0, Spread(HarmonyLightEntries(primaryHSL), "primary" :> primaryHSL))

\* the new light palette, mutated: muted and its foreground are not written
HarmonyLight_KeepMuted(colors0, primaryHSL) ==
    LET e == HarmonyLightEntries(primaryHSL)
    IN  Spread(colors0, [k \in DOMAIN e \ {"muted", "mutedForeground"} |-> e[k]])

\* generateHarmonyColors: the new light palette, the synthesised roles
\* written over a copy of the current light palette
HarmonyLight(colors0, primaryHSL) ==
    Spread(colors0, HarmonyLightEntries(primaryHSL))

\* generateHarmonyColors: the dark roles synthesised from the same base
\* colour
HarmonyDarkEntries(primaryHSL) ==
    LET h == ParseIntHue(primaryHSL)
        s == primaryHSL[2]
        l == primaryHSL[3]
        primaryH == h
        primaryS == Min(s + 20, 85)
        primaryL == Max(Min(l, 60), 45)
        secondaryS == Max(Min(primaryS - 60, 25), 5)
        secondaryL == Min(primaryL + 40, 96)
        accentS == Max(Min(primaryS - 30, 55), 30)
        accentL == Min(primaryL + 30, 88)
        darkPrimaryHSLValue == <<primaryH, Max(primaryS - 10, 60), Min(primaryL + 5, 60)>>
        darkSecondaryH == primaryH
        darkSecondaryS == Max(secondaryS, 10)
        darkSecondaryL == Max(Min(secondaryL - 75, 25), 15)
        darkSecondaryHSLValue == <<darkSecondaryH, darkSecondaryS, darkSecondaryL>>
        darkAccentHSLValue == <<primaryH, accentS, Max(accentL - 50, 25)>>
        darkBgH == primaryH
        darkBgS == Max(Min(primaryS - 60, 40), 30)
        darkBgL == Max(Min(primaryL - 35, 10), 8)
        darkBgHSLValue == <<darkBgH, darkBgS, darkBgL>>
        darkFgHSLValue == <<primaryH, 10, 95>>
        card == <<darkBgH, darkBgS, Min(darkBgL + 4, 20)>>
        border == <<darkSecondaryH, darkSecondaryS + 5, Min(darkSecondaryL + 10, 30)>>
        darkChartColors == generateChartColors(darkPrimaryHSLValue, darkSecondaryHSLValue,
                                               darkAccentHSLValue, TRUE)
    IN    [background |-> darkBgHSLValue,
           foreground |-> darkFgHSLValue,
           primary |-> darkPrimaryHSLValue,
           secondary |-> darkSecondaryHSLValue,
           accent |-> darkAccentHSLValue,
           card |-> card,
           popover |-> card,
           muted |-> darkSecondaryHSLValue,
           primaryForeground |->
               calculateContrastingColor(darkPrimaryHSLValue, "default"),
           secondaryForeground |->
               calculateContrastingColor(darkSecondaryHSLValue, "default"),
           accentForeground |->
               calculateContrastingColor(darkAccentHSLValue, "default"),
           cardForeground |-> darkFgHSLValue,
           popoverForeground |-> darkFgHSLValue,
           mutedForeground |-> <<darkSecondaryH, 15, 65>>,
           border |-> border,
           input |-> border,
           ring |-> darkPrimaryHSLValue,
           sidebar |-> <<darkBgH, darkBgS, Min(darkBgL + 12, 25)>>,
           sidebarForeground |-> darkFgHSLValue,
           sidebarPrimary |-> darkPrimaryHSLValue,
           sidebarPrimaryForeground |->
               calculateContrastingColor(darkPrimaryHSLValue, "default"),
           sidebarAccent |-> darkAccentHSLValue,
           sidebarAccentForeground |->
               calculateContrastingColor(darkAccentHSLValue, "default"),
           sidebarBorder |-> border,
           sidebarRing |-> darkPrimaryHSLValue,
           chart1 |-> darkChartColors.chart1,
           chart2 |-> darkChartColors.chart2,
           chart3 |-> darkChartColors.chart3,
           chart4 |-> darkChartColors.chart4,
           chart5 |-> darkChartColors.chart5]

\* the new dark palette, mutated: the dark chart series is the one that
\* was generated for the light palette
HarmonyDark_LightCharts(darkColors0, primaryHSL) ==
    Spread(darkColors0,
           Spread(HarmonyDarkEntries(primaryHSL),
                  ChartEntries(HarmonyLightEntries(primaryHSL))))

\* generateHarmonyColors: the new dark palette, the synthesised roles
\* written over a copy of the current dark palette
HarmonyDark(darkColors0, primaryHSL) ==
    Spread(darkColors0, HarmonyDarkEntries(primaryHSL))

\* ------------------------------------------------------- preset selection
\* the dark counterpart setCurrentTheme gives a preset's chart colour
DarkChartOf(c) == <<c[1], Max(c[2], 60), Min(Max(c[3], 50), 60)>>

\* the chart roles a preset provides
PresetCharts(themeColors) ==
    {k \in {"chart1", "chart2", "chart3", "chart4", "chart5"} : k \in DOMAIN themeColors}

\* setCurrentTheme: the light palette after applying a preset's colours
PresetLight(colors0, themeColors) ==
    LET applied ==
            [k \in DOMAIN colors0 |->
                IF k \in DOMAIN themeColors /\ k # "foreground"
                THEN hexToHSL(themeColors[k]) ELSE colors0[k]]
    IN  Spread(applied,
          [primaryForeground |-> calculateContrastingColor(applied.primary, "default"),
           secondaryForeground |-> calculateContrastingColor(applied.secondary, "default"),
           accentForeground |-> calculateContrastingColor(applied.accent, "default"),
           mutedForeground |-> calculateContrastingColor(applied.muted, "mutedForeground"),
           cardForeground |-> calculateContrastingColor(applied.card, "default"),
           popoverForeground |-> calculateContrastingColor(applied.popover, "default"),
           sidebarForeground |-> calculateContrastingColor(applied.sidebar, "default"),
           sidebarPrimaryForeground |->
               calculateContrastingColor(applied.sidebarPrimary, "default"),
           sidebarAccentForeground |->
               calculateContrastingColor(applied.sidebarAccent, "default")])

\* setCurrentTheme: the dark palette, every key of the current dark palette
\* taken from the derivation, then the preset's chart colours darkened
PresetDark(colors0, darkColors0, themeColors) ==
    LET newLightColors == PresetLight(colors0, themeColors)
        generatedDarkColors == deriveDarkModeColors(newLightColors)
    IN  [k \in DOMAIN darkColors0 |->
            IF k \in PresetCharts(themeColors)
            THEN DarkChartOf(hexToHSL(themeColors[k]))
            ELSE Get(generatedDarkColors, k)]


\* ------------------------------------------------------------------ inputs
\* hex colours passed to updateThemeColor: #000000, #3b82f6
HexInputs == {<<0, 0, 0>>, <<59, 130, 246>>}

\* role keys passed to updateThemeColor: the seeds and one other role
ColorKeys == SeedRoles \cup {"destructive"}

\* a hex colour of hue 330, whose +30 degree accent shift wraps: #ff0080
WrapHex == <<255, 0, 128>>

\* the (key, hex) pairs passed to updateThemeColor: every key with #3b82f6,
\* primary and secondary with #000000 as well, primary with #ff0080
EditInputs ==
    (ColorKeys \X {<<59, 130, 246>>})
      \cup ({"primary", "secondary"} \X HexInputs)
      \cup {<<"primary", WrapHex>>}

\* hex colours getRandomHexColor may draw: #123456, #fa8072
RandomHexes == {<<18, 52, 86>>, <<250, 128, 114>>}

\* the partial palette passed to updateMultipleThemeColors
PartialColors == {[primary |-> HSL(10, 50, 50)]}

\* the preset passed to addCustomTheme
CustomThemes ==
    {[name |-> "Custom",
      colors |-> [background |-> <<255, 255, 255>>,
                  foreground |-> <<0, 0, 0>>,
                  primary |-> <<59, 130, 246>>,
                  secondary |-> <<240, 224, 208>>,
                  accent |-> <<250, 128, 114>>],
      fonts |-> [heading |-> "Inter", body |-> "Inter"],
      borderRadius |-> "8"]}

\* the name passed to saveCurrentAsTheme
SaveNames == {"Saved"}

\* preset names passed to setCurrentTheme
ThemeNames == {"Default", "Custom", "Missing"}

\* partial theme states passed to applyThemeState
ThemeStateInputs ==
    {[isDarkMode |-> TRUE,
      darkColors |-> [background |-> HSL(220, 30, 10), primary |-> HSL(220, 70, 55)]],
     [colors |-> [primary |-> HSL(150, 60, 40)],
      fonts |-> [heading |-> "Inter"],
      borderRadius |-> "8"]}

\* the themes getThemeFromUrl may find in the page URL
UrlThemes == {t \in ThemeStateInputs : "isDarkMode" \in DOMAIN t}

\* ------------------------------------------------------------------- state
VARIABLES
    colors,           \* ThemeState.colors, the light palette
    darkColors,       \* ThemeState.darkColors
    fonts,            \* ThemeState.fonts
    borderRadius,     \* ThemeState.borderRadius
    isDarkMode,       \* ThemeState.isDarkMode
    predefinedThemes, \* ThemeState.predefinedThemes
    currentTheme,     \* ThemeState.currentTheme
    sink,             \* custom properties of document.documentElement.style
    darkClass,        \* "dark" in document.documentElement.classList
    url,              \* the theme parameter of the page URL ("" when absent)
    browser,          \* window and document exist
    last,             \* the last store operation called and how it ended
    nops,             \* store operations called so far
    chartCall,        \* the last direct call of generateChartColors
    storage           \* the "theme-store" slot of localStorage

storeVars == <<colors, darkColors, fonts, borderRadius, isDarkMode,
               predefinedThemes, currentTheme>>

vars == <<colors, darkColors, fonts, borderRadius, isDarkMode, predefinedThemes,
          currentTheme, sink, darkClass, url, browser, last, nops, chartCall,
          storage>>

\* the snapshot a set() callback receives
TheState ==
    [colors |-> colors, darkColors |-> darkColors, fonts |-> fonts,
     borderRadius |-> borderRadius, isDarkMode |-> isDarkMode,
     predefinedThemes |-> predefinedThemes, currentTheme |-> currentTheme]

\* the palette that is on screen
ActivePalette == IF isDarkMode THEN darkColors ELSE colors

NoCall == [fn |-> "none"]

\* defaultTheme: the built-in default Theme State
defaultTheme ==
    [colors |-> defaultColors, darkColors |-> defaultDarkColors,
     fonts |-> defaultFonts, borderRadius |-> defaultBorderRadius,
     isDarkMode |-> FALSE, predefinedThemes |-> defaultPredefinedThemes,
     currentTheme |-> "Default"]

\* localStorage.getItem("theme-store") === null
NoStoredValue == [stored |-> FALSE]

\* persist middleware: every set() writes partialize(state) to the slot;
\* there is no localStorage outside a browser
Persist == storage' = IF browser THEN TheState' ELSE storage

\* the store after create(): the built-in default, applied to the sink by
\* the module's client-side initialisation when there is a window
Init ==
    /\ colors = defaultColors
    /\ darkColors = defaultDarkColors
    /\ fonts = defaultFonts
    /\ borderRadius = defaultBorderRadius
    /\ isDarkMode = FALSE
    /\ predefinedThemes = defaultPredefinedThemes
    /\ currentTheme = "Default"
    /\ browser \in BOOLEAN
    /\ sink = applyCSSVariables(emptySink, defaultColors, defaultBorderRadius,
                                defaultFonts, browser)
    /\ darkClass = FALSE
    /\ url = ""
    /\ last = [op |-> "init", key |-> "", value |-> <<>>, raised |-> FALSE]
    /\ nops = 0
    /\ chartCall = NoCall
    /\ storage = NoStoredValue

\* a call that ended normally / by raising out of the operation
Returned(op, key, value) ==
    /\ last' = [op |-> op, key |-> key, value |-> value, raised |-> FALSE]
    /\ nops' = nops + 1

Raised(op, key, value) ==
    /\ last' = [op |-> op, key |-> key, value |-> value, raised |-> TRUE]
    /\ nops' = nops + 1

\* ------------------------------------------------------------- operations
\* updateThemeColor(key, hexValue)
updateThemeColor(key, hexValue) ==
    LET hslValue == hexToHSL(hexValue)
        pal == UpdateThemeColorPalettes(key, hslValue, colors, darkColors, isDarkMode)
        newState == [TheState EXCEPT !.colors = pal.colors,
                                     !.darkColors = pal.darkColors]
        applied == applyCSSVariables(sink, IF isDarkMode THEN pal.darkColors
                                           ELSE pal.colors,
                                     borderRadius, fonts, browser)
    IN  /\ nops < MaxOps
        /\ IF isDarkMode /\ ~browser
           THEN \* document.documentElement is read with no document
                /\ Raised("updateThemeColor", key, hslValue)
                /\ UNCHANGED <<storeVars, sink, url>>
           ELSE /\ colors' = pal.colors
                /\ darkColors' = pal.darkColors
                /\ sink' = IF isDarkMode
                           THEN DirectChartWrites(applied, pal.darkColors)
                           ELSE applied
                /\ url' = updateThemeUrl(url, newState, browser)
                /\ Returned("updateThemeColor", key, hslValue)
                /\ UNCHANGED <<fonts, borderRadius, isDarkMode, predefinedThemes,
                               currentTheme>>
        /\ UNCHANGED <<darkClass, browser, chartCall>>
        /\ Persist

\* updateMultipleThemeColors(colors)
updateMultipleThemeColors(partial) ==
    LET newState == [TheState EXCEPT !.colors = Spread(colors, partial),
                                     !.darkColors = Spread(darkColors, partial)]
    IN  /\ nops < MaxOps
        /\ colors' = newState.colors
        /\ darkColors' = newState.darkColors
        /\ sink' = applyCSSVariables(sink, IF isDarkMode THEN darkColors ELSE colors,
                                     borderRadius, fonts, browser)
        /\ url' = updateThemeUrl(url, newState, browser)
        /\ Returned("updateMultipleThemeColors", "", partial)
        /\ UNCHANGED <<fonts, borderRadius, isDarkMode, predefinedThemes, currentTheme,
                       darkClass, browser, chartCall>>
        /\ Persist

\* updateBorderRadius(value)
updateBorderRadius(value) ==
    /\ nops < MaxOps
    /\ IF ~browser
       THEN /\ Raised("updateBorderRadius", "", value)
            /\ UNCHANGED <<borderRadius, sink, url>>
       ELSE /\ sink' = [sink EXCEPT !["--radius"] = <<value, "rem">>]
            /\ borderRadius' = value
            /\ url' = updateThemeUrl(url, [TheState EXCEPT !.borderRadius = value],
                                     browser)
            /\ Returned("updateBorderRadius", "", value)
    /\ UNCHANGED <<colors, darkColors, fonts, isDarkMode, predefinedThemes,
                   currentTheme, darkClass, browser, chartCall>>
    /\ Persist

\* updateFont(key, value)
updateFont(key, value) ==
    LET newFonts == Spread(fonts, key :> value)
    IN  /\ nops < MaxOps
        /\ IF ~browser
           THEN /\ Raised("updateFont", key, value)
                /\ UNCHANGED <<fonts, sink, url>>
           ELSE /\ sink' = [sink EXCEPT ![IF key = "heading" THEN "--font-heading"
                                          ELSE "--font-body"] = value]
                /\ fonts' = newFonts
                /\ url' = updateThemeUrl(url, [TheState EXCEPT !.fonts = newFonts],
                                         browser)
                /\ Returned("updateFont", key, value)
        /\ UNCHANGED <<colors, darkColors, borderRadius, isDarkMode, predefinedThemes,
                       currentTheme, darkClass, browser, chartCall>>
        /\ Persist

\* resetTheme(): set(defaultTheme), then the sink, then the dark class, then
\* a second set of currentTheme; without a document the class toggle raises
\* after the first set has been committed
resetTheme ==
    /\ nops < MaxOps
    /\ colors' = defaultColors
    /\ darkColors' = defaultDarkColors
    /\ fonts' = defaultFonts
    /\ borderRadius' = defaultBorderRadius
    /\ isDarkMode' = FALSE
    /\ predefinedThemes' = defaultPredefinedThemes
    /\ currentTheme' = "Default"
    /\ sink' = applyCSSVariables(sink, defaultColors, defaultBorderRadius,
                                 defaultFonts, browser)
    /\ darkClass' = FALSE
    /\ IF browser THEN Returned("resetTheme", "", <<>>)
                  ELSE Raised("resetTheme", "", <<>>)
    /\ UNCHANGED <<url, browser, chartCall>>
    /\ Persist

\* toggleDarkMode()
toggleDarkMode ==
    LET newIsDarkMode == ~isDarkMode
    IN  /\ nops < MaxOps
        /\ IF ~browser
           THEN /\ Raised("toggleDarkMode", "", <<>>)
                /\ UNCHANGED <<isDarkMode, sink, darkClass, url>>
           ELSE /\ darkClass' = newIsDarkMode
                /\ sink' = applyCSSVariables(sink, IF newIsDarkMode THEN darkColors
                                                   ELSE colors,
                                             borderRadius, fonts, browser)
                /\ isDarkMode' = newIsDarkMode
                /\ url' = updateThemeUrl(url, [TheState EXCEPT
                                                 !.isDarkMode = newIsDarkMode], browser)
                /\ Returned("toggleDarkMode", "", <<>>)
        /\ UNCHANGED <<colors, darkColors, fonts, borderRadius, predefinedThemes,
                       currentTheme, browser, chartCall>>
        /\ Persist

\* generateHarmonyColors(), with primaryHex the colour getRandomHexColor drew
generateHarmonyColors(primaryHex) ==
    LET primaryHSL == hexToHSL(primaryHex)
        lightColors == HarmonyLight(colors, primaryHSL)
        newDarkColors == HarmonyDark(darkColors, primaryHSL)
        newState == [TheState EXCEPT !.colors = lightColors,
                                     !.darkColors = newDarkColors]
    IN  /\ nops < MaxOps
        /\ colors' = lightColors
        /\ darkColors' = newDarkColors
        /\ sink' = applyCSSVariables(sink, IF isDarkMode THEN newDarkColors
                                           ELSE lightColors,
                                     borderRadius, fonts, browser)
        /\ url' = updateThemeUrl(url, newState, browser)
        /\ Returned("generateHarmonyColors", "", primaryHSL)
        /\ UNCHANGED <<fonts, borderRadius, isDarkMode, predefinedThemes, currentTheme,
                       darkClass, browser, chartCall>>
        /\ Persist


\* applyThemeState, mutated: the palettes of the argument replace the
\* store's palettes instead of being merged into them
MergeThemeState_Replace(state, themeState) ==
    Spread(state, themeState)

\* applyThemeState: the new state, the argument spread over the snapshot
\* with palettes and fonts merged key by key
MergeThemeState(state, themeState) ==
    Spread(Spread(state, themeState),
      [colors |-> IF "colors" \in DOMAIN themeState
                  THEN Spread(state.colors, themeState.colors) ELSE state.colors,
       darkColors |-> IF "darkColors" \in DOMAIN themeState
                      THEN Spread(state.darkColors, themeState.darkColors)
                      ELSE state.darkColors,
       fonts |-> IF "fonts" \in DOMAIN themeState
                 THEN Spread(state.fonts, themeState.fonts) ELSE state.fonts,
       isDarkMode |-> IF "isDarkMode" \in DOMAIN themeState
                      THEN themeState.isDarkMode ELSE state.isDarkMode])

\* applyThemeState(themeState)
applyThemeState(themeState) ==
    LET newState == MergeThemeState(TheState, themeState)
    IN  /\ nops < MaxOps
        /\ IF ~browser
           THEN \* document.documentElement.classList with no document
                /\ Raised("applyThemeState", "", themeState)
                /\ UNCHANGED <<storeVars, sink, darkClass, url>>
           ELSE /\ colors' = newState.colors
                /\ darkColors' = newState.darkColors
                /\ fonts' = newState.fonts
                /\ borderRadius' = newState.borderRadius
                /\ isDarkMode' = newState.isDarkMode
                /\ predefinedThemes' = newState.predefinedThemes
                /\ currentTheme' = newState.currentTheme
                /\ sink' = applyCSSVariables(sink,
                                             IF newState.isDarkMode
                                             THEN newState.darkColors
                                             ELSE newState.colors,
                                             newState.borderRadius, newState.fonts,
                                             browser)
                /\ darkClass' = newState.isDarkMode
                /\ url' = updateThemeUrl(url, newState, browser)
                /\ Returned("applyThemeState", "", themeState)
        /\ UNCHANGED <<browser, chartCall>>
        /\ Persist

\* predefinedThemes.find, mutated: the first preset stands in for a name
\* that matches none
FindTheme_FirstPreset(themes, themeName) ==
    LET found == {i \in 1..Len(themes) : themes[i].name = themeName}
    IN  IF found = {} THEN themes[1]
        ELSE themes[CHOOSE i \in found : \A j \in found : i <= j]

\* predefinedThemes.find((t) => t.name === themeName); the result has no
\* name when nothing matches (undefined)
FindTheme(themes, themeName) ==
    LET found == {i \in 1..Len(themes) : themes[i].name = themeName}
    IN  IF found = {} THEN [undefined |-> TRUE]
        ELSE themes[CHOOSE i \in found : \A j \in found : i <= j]

\* setCurrentTheme(themeName)
setCurrentTheme(themeName) ==
    LET theme == FindTheme(predefinedThemes, themeName)
        hasColors == "colors" \in DOMAIN theme
        newLightColors == IF hasColors THEN PresetLight(colors, theme.colors) ELSE colors
        newDarkColors == IF hasColors THEN PresetDark(colors, darkColors, theme.colors)
                         ELSE darkColors
        newFonts == IF "fonts" \in DOMAIN theme THEN Spread(fonts, theme.fonts) ELSE fonts
        newBorderRadius == IF "borderRadius" \in DOMAIN theme THEN theme.borderRadius
                           ELSE borderRadius
        newState == [TheState EXCEPT !.colors = newLightColors,
                                     !.darkColors = newDarkColors,
                                     !.fonts = newFonts,
                                     !.borderRadius = newBorderRadius,
                                     !.currentTheme = themeName]
    IN  /\ nops < MaxOps
        /\ IF "name" \notin DOMAIN theme
           THEN UNCHANGED <<storeVars, sink, url>>
           ELSE /\ colors' = newLightColors
                /\ darkColors' = newDarkColors
                /\ fonts' = newFonts
                /\ borderRadius' = newBorderRadius
                /\ currentTheme' = themeName
                /\ sink' = applyCSSVariables(sink, IF isDarkMode THEN newDarkColors
                                                   ELSE newLightColors,
                                             newBorderRadius, newFonts, browser)
                /\ url' = updateThemeUrl(url, newState, browser)
                /\ UNCHANGED <<isDarkMode, predefinedThemes>>
        /\ Returned("setCurrentTheme", themeName, <<>>)
        /\ UNCHANGED <<darkClass, browser, chartCall>>
        /\ Persist

\* getHexColor(colorKey): the active palette's seed as hex, black for any
\* other key
getHexColor(state, colorKey) ==
    LET active == IF state.isDarkMode THEN state.darkColors ELSE state.colors
    IN  IF colorKey \in SeedRoles THEN hslToHex(active[colorKey]) ELSE <<0, 0, 0>>

\* addCustomTheme: the preset list with the preset of that name replaced,
\* or with the preset appended when the name is new
AddTheme(themes, theme) ==
    LET existing == {i \in 1..Len(themes) : themes[i].name = theme.name}
    IN  IF existing # {}
        THEN [themes EXCEPT ![CHOOSE i \in existing : \A j \in existing : i <= j] = theme]
        ELSE Append(themes, theme)

\* addCustomTheme(theme)
addCustomTheme(theme) ==
    /\ nops < MaxOps
    /\ predefinedThemes' = AddTheme(predefinedThemes, theme)
    /\ Returned("addCustomTheme", theme.name, <<>>)
    /\ UNCHANGED <<colors, darkColors, fonts, borderRadius, isDarkMode, currentTheme,
                   sink, url, darkClass, browser, chartCall>>
    /\ Persist

\* saveCurrentAsTheme: the preset built from the snapshot
CurrentAsTheme(state, name) ==
    LET chartColors == generateChartColors(hexToHSL(getHexColor(state, "primary")),
                                           hexToHSL(getHexColor(state, "secondary")),
                                           hexToHSL(getHexColor(state, "accent")),
                                           state.isDarkMode)
    IN  [name |-> name,
         colors |-> [background |-> getHexColor(state, "background"),
                     foreground |-> getHexColor(state, "foreground"),
                     primary |-> getHexColor(state, "primary"),
                     secondary |-> getHexColor(state, "secondary"),
                     accent |-> getHexColor(state, "accent"),
                     chart1 |-> hslToHex(chartColors.chart1),
                     chart2 |-> hslToHex(chartColors.chart2),
                     chart3 |-> hslToHex(chartColors.chart3),
                     chart4 |-> hslToHex(chartColors.chart4),
                     chart5 |-> hslToHex(chartColors.chart5)],
         fonts |-> state.fonts,
         borderRadius |-> state.borderRadius]

\* saveCurrentAsTheme(name): inside the set callback, addCustomTheme commits
\* the new preset list by a set of its own; the callback then returns the
\* snapshot it was given with currentTheme replaced, and set merges that
\* object over the store, old preset list included
saveCurrentAsTheme(name) ==
    LET newTheme == CurrentAsTheme(TheState, name)
        nested == [TheState EXCEPT
                     !.predefinedThemes = AddTheme(predefinedThemes, newTheme)]
        returned == [TheState EXCEPT !.currentTheme = name]
        newState == Spread(nested, returned)
    IN  /\ nops < MaxOps
        /\ predefinedThemes' = newState.predefinedThemes
        /\ currentTheme' = newState.currentTheme
        /\ Returned("saveCurrentAsTheme", name, newTheme)
        /\ UNCHANGED <<colors, darkColors, fonts, borderRadius, isDarkMode,
                       sink, url, darkClass, browser, chartCall>>
        /\ Persist

\* ------------------------------------------------------ CSS text generator
\* the property the raw-HSL (useV3) format writes for each role
V3Name == [k \in Roles |-> IF k = "sidebar" THEN "--sidebar-background" ELSE CssName[k]]

ChartRoles == {"chart1", "chart2", "chart3", "chart4", "chart5"}

\* one selector block of the raw-HSL format: the listed roles as they are,
\* and --destructive-foreground taken from primaryForeground
V3Block(p, roles) ==
    [n \in {V3Name[k] : k \in roles} \cup {"--destructive-foreground"} |->
        IF n = "--destructive-foreground" THEN p.primaryForeground
        ELSE p[CHOOSE k \in roles : V3Name[k] = n]]

\* one selector block of the OKLCH format: every role, converted
V4Block(p) == [n \in {CssName[k] : k \in Roles} |-> formatToOklch(p[RoleOf(n)])]

\* generateCSSVariables(useV3): the custom properties declared under :root
\* and under .dark (the fixed text around them is left out)
generateCSSVariables(state, useV3) ==
    LET radius == "--radius" :> <<state.borderRadius, "rem">>
    IN  IF useV3
        THEN [root |-> V3Block(state.colors, Roles) @@ radius,
              dark |-> V3Block(state.darkColors, Roles \ ChartRoles)]
        ELSE [root |-> V4Block(state.colors) @@ radius,
              dark |-> V4Block(state.darkColors)]

\* persist middleware at create(): the stored value, when there is one,
\* spread over the initial state
Rehydrate(stored) ==
    IF stored = NoStoredValue THEN defaultTheme ELSE Spread(defaultTheme, stored)

\* getThemeFromUrl() === null: the page URL carries no theme
NoUrlTheme == [null |-> TRUE]

\* a page load in the browser: create() rehydrates the store, the module's
\* client-side initialisation pushes it to the fresh document, and Home's
\* effect applies the theme of the URL or, without one, calls resetTheme
loadPage(urlTheme) ==
    LET state == Rehydrate(storage)
        initSink == applyCSSVariables(emptySink,
                                      IF state.isDarkMode THEN state.darkColors
                                      ELSE state.colors,
                                      state.borderRadius, state.fonts, TRUE)
        newState == IF urlTheme = NoUrlTheme THEN defaultTheme
                    ELSE MergeThemeState(state, urlTheme)
    IN  /\ nops < MaxOps
        /\ browser
        /\ colors' = newState.colors
        /\ darkColors' = newState.darkColors
        /\ fonts' = newState.fonts
        /\ borderRadius' = newState.borderRadius
        /\ isDarkMode' = newState.isDarkMode
        /\ predefinedThemes' = newState.predefinedThemes
        /\ currentTheme' = newState.currentTheme
        /\ sink' = applyCSSVariables(initSink,
                                     IF newState.isDarkMode THEN newState.darkColors
                                     ELSE newState.colors,
                                     newState.borderRadius, newState.fonts, TRUE)
        /\ darkClass' = IF urlTheme = NoUrlTheme THEN FALSE
                        ELSE IF "isDarkMode" \in DOMAIN urlTheme
                        THEN urlTheme.isDarkMode ELSE FALSE
        /\ url' = IF urlTheme = NoUrlTheme THEN ""
                  ELSE updateThemeUrl(url, newState, TRUE)
        /\ Returned("loadPage", IF urlTheme = NoUrlTheme THEN "bare" ELSE "theme",
                    urlTheme)
        /\ UNCHANGED <<browser, chartCall>>
        /\ Persist

\* ---------------------------------------------------------- specification
UpdateThemeColor == \E e \in EditInputs : updateThemeColor(e[1], e[2])

UpdateMultipleThemeColors == \E partial \in PartialColors :
                                 updateMultipleThemeColors(partial)

UpdateBorderRadius == \E value \in BorderRadii : updateBorderRadius(value)

UpdateFont == \E key \in {"heading", "body"}, value \in FontNames : updateFont(key, value)

ResetTheme == resetTheme

ToggleDarkMode == toggleDarkMode

GenerateHarmonyColors == \E primaryHex \in RandomHexes : generateHarmonyColors(primaryHex)

ApplyThemeState == \E themeState \in ThemeStateInputs : applyThemeState(themeState)

SetCurrentTheme == \E themeName \in ThemeNames : setCurrentTheme(themeName)

AddCustomTheme == \E theme \in CustomThemes : addCustomTheme(theme)

SaveCurrentAsTheme == \E name \in SaveNames : saveCurrentAsTheme(name)

LoadPage == \E urlTheme \in {NoUrlTheme} \cup UrlThemes : loadPage(urlTheme)

Next ==
    \/ UpdateThemeColor
    \/ UpdateMultipleThemeColors
    \/ UpdateBorderRadius
    \/ UpdateFont
    \/ ResetTheme
    \/ ToggleDarkMode
    \/ GenerateHarmonyColors
    \/ ApplyThemeState
    \/ SetCurrentTheme
    \/ AddCustomTheme
    \/ SaveCurrentAsTheme
    \/ LoadPage

Spec == Init /\ [][Next]_vars

\* ------------------------------------- the chart generator on its own
\* primaries the generator is called with: every saturation and lightness,
\* an integer hue and a fractional one
ChartPrimaries == {<<h, s, l>> : h \in {29100, 35718}, s \in 0..100, l \in 0..100}

\* (secondary, accent) pairs the generator is called with
ChartOthers == {<<HSL(291, 30, 85), HSL(120, 50, 75)>>, <<HSL(40, 90, 20), HSL(200, 10, 50)>>}

InitChart ==
    /\ Init
    /\ browser = TRUE

\* one call generateChartColors(primary, a[1], a[2], isDark), and the same
\* call with the other seeds b[1], b[2]
CallGenerateChartColors ==
    /\ chartCall.fn = "none"
    /\ \E primary \in ChartPrimaries, a \in ChartOthers, b \in ChartOthers,
          isDark \in BOOLEAN :
            chartCall' = [fn |-> "generateChartColors",
                          primary |-> primary, isDark |-> isDark,
                          a |-> a, b |-> b,
                          out |-> generateChartColors(primary, a[1], a[2], isDark),
                          outB |-> generateChartColors(primary, b[1], b[2], isDark)]
    /\ UNCHANGED <<storeVars, sink, darkClass, url, browser, last, nops, storage>>

NextChart == CallGenerateChartColors

SpecChart == InitChart /\ [][NextChart]_vars


\* ------------------------------------------------------------------ claims
\* the step just taken is a call of the store operation op
Called(op) == nops' = nops + 1 /\ last'.op = op

\* the store operations that change a palette
PaletteOps == {"updateThemeColor", "updateMultipleThemeColors", "generateHarmonyColors",
               "setCurrentTheme", "applyThemeState", "resetTheme", "toggleDarkMode"}

\* the store operations that change the theme state
MutatingOps == PaletteOps \cup {"updateBorderRadius", "updateFont"}

\* C1 (as claimed): when dark mode is active, updateThemeColor on a seed
\* role leaves every role of the light palette as it was before the call.
C1_DarkEditLeavesLight ==
    [][(Called("updateThemeColor") /\ last'.key \in SeedRoles /\ isDarkMode)
         => colors' = colors]_vars

\* C2: both palettes hold a value for every semantic role key in every
\* reachable state; no operation removes a key or leaves a partial palette.
C2_PalettesComplete ==
    /\ DOMAIN colors = Roles
    /\ DOMAIN darkColors = Roles
    /\ \A k \in Roles : Len(colors[k]) = 3 /\ Len(darkColors[k]) = 3

\* a partial theme state with a partial light palette has been applied
C2_Witness ==
    /\ last.op = "applyThemeState"
    /\ ~last.raised
    /\ "colors" \in DOMAIN last.value
    /\ DOMAIN last.value.colors # Roles
    /\ colors.primary = last.value.colors.primary

\* C3: generateChartColors returns chart1 equal to the primary unmodified and
\* chart2..chart5 with the primary's hue and the saturation / lightness of
\* the rule table of its mode.
C3_ChartTable ==
    chartCall.fn = "generateChartColors" =>
        LET h == chartCall.primary[1]
            s == chartCall.primary[2]
            l == chartCall.primary[3]
            out == chartCall.out
        IN  /\ out.chart1 = chartCall.primary
            /\ IF chartCall.isDark
               THEN /\ out.chart2 = <<h, Min(s + 5, 90), Min(l + 15, 70)>>
                    /\ out.chart3 = <<h, Min(s + 10, 95), Min(l + 25, 80)>>
                    /\ out.chart4 = <<h, Max(s - 10, 40), Max(l - 15, 30)>>
                    /\ out.chart5 = <<h, Max(s - 20, 30), Max(l - 25, 20)>>
               ELSE /\ out.chart2 = <<h, Max(s - 15, 30), Min(l + 15, 75)>>
                    /\ out.chart3 = <<h, Max(s - 30, 20), Min(l + 25, 85)>>
                    /\ out.chart4 = <<h, Min(s + 10, 90), Max(l - 15, 25)>>
                    /\ out.chart5 = <<h, Min(s + 5, 85), Max(l - 25, 20)>>

\* a dark-mode call whose lightness ceilings and floors all differ from the
\* unclamped values
C3_Witness ==
    /\ chartCall.fn = "generateChartColors"
    /\ chartCall.isDark
    /\ chartCall.primary = <<35718, 100, 72>>
    /\ chartCall.out.chart2 = <<35718, 90, 70>>

\* C4: two calls of generateChartColors with the same primary and flag but
\* different secondary and accent return the same five chart colours.
C4_ChartIgnoresOtherSeeds ==
    chartCall.fn = "generateChartColors" => chartCall.out = chartCall.outB

\* the two calls differ in both secondary and accent
C4_Witness ==
    /\ chartCall.fn = "generateChartColors"
    /\ chartCall.a[1] # chartCall.b[1]
    /\ chartCall.a[2] # chartCall.b[2]
    /\ chartCall.out = chartCall.outB

\* C5: editing primary with updateThemeColor while dark mode is inactive
\* never changes the light palette's secondary or accent.
C5_LightPrimaryKeepsSecondaryAccent ==
    [][(Called("updateThemeColor") /\ last'.key = "primary" /\ ~isDarkMode)
         => /\ colors'.secondary = colors.secondary
            /\ colors'.accent = colors.accent]_vars

\* primary has been edited in light mode on a palette whose secondary and
\* accent had been edited before
C5_Witness ==
    /\ last.op = "updateThemeColor"
    /\ last.key = "primary"
    /\ ~last.raised
    /\ ~isDarkMode
    /\ colors.primary = last.value
    /\ colors.secondary # defaultColors.secondary

\* C6: editing primary to (h, s, l) in dark mode overwrites the dark
\* secondary with (h, min(s-40,30) floored at 7, min(l-20,30) floored at 15)
\* and the dark accent with hue (h+30) mod 360, saturation at most 80 and
\* lightness at most 65, whatever they were before.
C6_DarkPrimaryResynthesis ==
    (last.op = "updateThemeColor" /\ last.key = "primary" /\ isDarkMode /\ ~last.raised)
      => LET h == last.value[1]
             s == last.value[2]
             l == last.value[3]
         IN  /\ darkColors.secondary =
                    <<h, Max(Min(s - 40, 30), 7), Max(Min(l - 20, 30), 15)>>
             /\ darkColors.accent[1] = (h + 30 * HueScale) % (360 * HueScale)
             /\ darkColors.accent[2] <= 80
             /\ darkColors.accent[3] <= 65

\* primary has been edited to #3b82f6 ("217 91% 60%") in dark mode
C6_Witness ==
    /\ last.op = "updateThemeColor"
    /\ last.key = "primary"
    /\ isDarkMode
    /\ ~last.raised
    /\ last.value = HSL(217, 91, 60)
    /\ darkColors.secondary = HSL(217, 30, 30)
    /\ darkColors.accent = HSL(247, 80, 65)

\* C7 (as claimed): whether or not the sink target exists, every mutating
\* store operation completes without raising and commits its new state.
C7_SinkFailureHarmless ==
    last.op \in MutatingOps =>
        /\ ~last.raised
        /\ last.op = "updateBorderRadius" => borderRadius = last.value
        /\ last.op = "updateFont" => fonts[last.key] = last.value

\* C8 (as claimed): after every operation that changes a palette, the sink
\* holds for each role the OKLCH conversion of that role in the active
\* palette of the resulting state.
C8_SinkShowsActivePalette ==
    (browser /\ last.op \in PaletteOps /\ ~last.raised)
      => \A k \in Roles : sink[CssName[k]] = formatToOklch(ActivePalette[k])

C10_HarmonyChart1IsPrimary ==
    last.op = "generateHarmonyColors" =>
        /\ colors.chart1 = colors.primary
        /\ darkColors.chart1 = darkColors.primary

\* a harmony has been generated whose dark primary differs from the light
C10_Witness ==
    /\ last.op = "generateHarmonyColors"
    /\ colors.primary # darkColors.primary
    /\ darkColors.chart1 = darkColors.primary


\* a colour value of the data model: hue in [0, 360), percentages in [0, 100]
InRange(c) ==
    /\ c[1] >= 0 /\ c[1] < 360 * HueScale
    /\ c[2] >= 0 /\ c[2] <= 100
    /\ c[3] >= 0 /\ c[3] <= 100

\* C11: in every reachable state every colour of both palettes has its
\* saturation and lightness in [0, 100] and its hue in [0, 360)
C11_ColoursInRange ==
    \A k \in Roles : InRange(colors[k]) /\ InRange(darkColors[k])

\* a dark-mode edit of primary to #ff0080 (hue 330) has wrapped the accent
\* hue 330 + 30 to 0 and capped its saturation and lightness
C11_Witness ==
    /\ last.op = "updateThemeColor" /\ last.key = "primary" /\ ~last.raised
    /\ isDarkMode
    /\ darkColors.primary = HSL(330, 100, 50)
    /\ darkColors.accent = HSL(0, 80, 65)
    /\ darkColors.secondary = HSL(330, 30, 30)

\* C12: a page load with a stored snapshot and no theme in the URL leaves
\* the Theme State equal to the stored snapshot
C12_StartupKeepsPersisted ==
    [][(Called("loadPage") /\ last'.key = "bare" /\ storage # NoStoredValue)
         => TheState' = storage]_vars

\* C13: setCurrentTheme with a name that matches no preset returns normally
\* and leaves every field of the Theme State, the sink and the URL unchanged
C13_UnknownPresetIsNoOp ==
    [][(Called("setCurrentTheme")
          /\ \A i \in 1..Len(predefinedThemes) : predefinedThemes[i].name # last'.key)
         => /\ UNCHANGED <<storeVars, sink, url, darkClass>>
            /\ ~last'.raised]_vars

\* setCurrentTheme("Missing") has returned in a state that is no longer the
\* built-in default
C13_Witness ==
    /\ last.op = "setCurrentTheme" /\ last.key = "Missing" /\ ~last.raised
    /\ \A i \in 1..Len(predefinedThemes) : predefinedThemes[i].name # "Missing"
    /\ currentTheme = "Default"
    /\ isDarkMode
    /\ colors # defaultColors

\* C14: the token of a Theme State with the default font pair, the default
\* border radius and dark mode inactive holds the light colour group only,
\* and r is in a token exactly when the border radius is not the default
C14_EncodingOmitsDefaults ==
    LET token == encodeThemeState(TheState)
    IN  /\ (fonts = defaultFonts /\ borderRadius = defaultBorderRadius /\ ~isDarkMode)
            => DOMAIN token = {"l"}
        /\ ("r" \in DOMAIN token) <=> (borderRadius # defaultBorderRadius)

\* C15: in a browser, after every operation that changed the Theme State the
\* theme parameter of the URL is the encoding of the resulting Theme State
C15_UrlFollowsState ==
    [][(browser /\ nops' = nops + 1 /\ last'.op \in MutatingOps /\ ~last'.raised
          /\ TheState' # TheState)
         => url' = encodeThemeState(TheState')]_vars

\* the colour custom properties of a selector block
ColourProperties(block) == DOMAIN block \ {"--radius"}

\* C16: generateCSSVariables declares the same colour properties in the
\* raw-HSL and in the OKLCH format, and in each format the same ones under
\* :root and under .dark
C16_SameColourProperties ==
    LET v3 == generateCSSVariables(TheState, TRUE)
        v4 == generateCSSVariables(TheState, FALSE)
    IN  /\ ColourProperties(v3.root) = ColourProperties(v4.root)
        /\ ColourProperties(v3.dark) = ColourProperties(v4.dark)
        /\ ColourProperties(v3.root) = ColourProperties(v3.dark)
        /\ ColourProperties(v4.root) = ColourProperties(v4.dark)

\* C17: from the built-in default with dark mode inactive,
\* updateThemeColor("primary", "#000000") leaves the light primary at
\* "0 0% 0%" with a primaryForeground of lightness at least 90
C17_BlackPrimaryGetsLightForeground ==
    [][(TheState = defaultTheme /\ Called("updateThemeColor")
          /\ last'.key = "primary" /\ last'.value = hexToHSL(<<0, 0, 0>>))
         => /\ ~last'.raised
            /\ colors'.primary = HSL(0, 0, 0)
            /\ colors'.primaryForeground[3] >= 90]_vars

\* the first operation of the run was updateThemeColor("primary", "#000000")
C17_Witness ==
    /\ nops = 1 /\ ~isDarkMode
    /\ last.op = "updateThemeColor" /\ last.key = "primary" /\ ~last.raised
    /\ last.value = HSL(0, 0, 0)
    /\ colors.primary = HSL(0, 0, 0)
    /\ colors.primaryForeground = HSL(0, 10, 95)

\* C18: from the built-in default, setCurrentTheme("Default") reproduces the
\* built-in default light palette (primary "291 80% 45%", primaryForeground
\* "291 10% 95%", the default chart1..chart5)
C18_DefaultPresetReproducesDefault ==
    [][(TheState = defaultTheme /\ Called("setCurrentTheme") /\ last'.key = "Default")
         => colors' = defaultColors]_vars

\* C19: in the built-in default and after one updateThemeColor on a seed
\* role, one generateHarmonyColors or one toggleDarkMode from it, each
\* palette's chart series starts at that palette's current primary
C19_ChartsFollowPrimary ==
    (/\ nops <= 1
     /\ \/ last.op \in {"init", "generateHarmonyColors", "toggleDarkMode"}
        \/ last.op = "updateThemeColor" /\ last.key \in SeedRoles)
      => /\ colors.chart1 = colors.primary
         /\ darkColors.chart1 = darkColors.primary

\* C20: after saveCurrentAsTheme(name) the preset list holds a preset of
\* that name with the current seed colours, fonts and border radius, and
\* currentTheme is that name
C20_SavedPresetIsKept ==
    (last.op = "saveCurrentAsTheme" /\ ~last.raised)
      => /\ currentTheme = last.key
         /\ \E i \in 1..Len(predefinedThemes) :
               /\ predefinedThemes[i].name = last.key
               /\ predefinedThemes[i] = CurrentAsTheme(TheState, last.key)

\* C21: after updateThemeColor on a seed role, the palette being edited (the
\* dark one in dark mode, the light one otherwise) holds the new colour
\* under that role
C21_EditedPaletteHoldsSeed ==
    [][(Called("updateThemeColor") /\ last'.key \in SeedRoles /\ ~last'.raised)
         => (IF isDarkMode THEN darkColors' ELSE colors')[last'.key] = last'.value]_vars

\* C22: after editing primary with updateThemeColor, in either mode, the
\* edited palette has primary = ring = sidebarPrimary = sidebarRing = the new
\* colour and sidebarPrimaryForeground = primaryForeground
C22_PrimaryFamilyFollows ==
    [][(Called("updateThemeColor") /\ last'.key = "primary" /\ ~last'.raised)
         => LET edited == IF isDarkMode THEN darkColors' ELSE colors'
            IN  /\ edited.primary = last'.value
                /\ edited.ring = last'.value
                /\ edited.sidebarPrimary = last'.value
                /\ edited.sidebarRing = last'.value
                /\ edited.sidebarPrimaryForeground = edited.primaryForeground]_vars

\* C23: after editing primary with updateThemeColor, the edited palette's
\* chart1..chart5 are the chart series generator's output for the new
\* primary in that palette's mode
C23_PrimaryEditChartsFollowTable ==
    [][(Called("updateThemeColor") /\ last'.key = "primary" /\ ~last'.raised)
         => LET edited == IF isDarkMode THEN darkColors' ELSE colors'
                ramp == generateChartColors(last'.value, edited.secondary,
                                            edited.accent, isDarkMode)
            IN  \A k \in ChartRoles : edited[k] = ramp[k]]_vars

\* the contrast guarantee of a foreground against its background role
ContrastGuarantee(bg, fg) ==
    /\ (bg[3] < 45 => fg[3] >= 90)
    /\ (bg[3] >= 50 => fg[3] <= 15)

\* C24: after editing primary in dark mode, the dark primaryForeground,
\* secondaryForeground and accentForeground satisfy the contrast guarantee
\* against the new dark primary, secondary and accent
C24_DarkPrimaryEditContrast ==
    [][(Called("updateThemeColor") /\ last'.key = "primary" /\ ~last'.raised
          /\ isDarkMode)
         => /\ ContrastGuarantee(darkColors'.primary, darkColors'.primaryForeground)
            /\ ContrastGuarantee(darkColors'.secondary, darkColors'.secondaryForeground)
            /\ ContrastGuarantee(darkColors'.accent, darkColors'.accentForeground)]_vars

\* C25: editing secondary or accent outside dark mode gives the dark
\* palette's matching role a darkened colour of the same hue (for secondary:
\* saturation max(s - 20, 10), lightness min(l - 70, 25) floored at 15),
\* never the seed value itself
C25_DarkCounterpartIsTransformed ==
    [][(Called("updateThemeColor") /\ last'.key \in {"secondary", "accent"}
          /\ ~last'.raised /\ ~isDarkMode)
         => LET c == last'.value
                d == darkColors'[last'.key]
            IN  /\ d[1] = c[1]
                /\ d # c
                /\ last'.key = "secondary"
                     => d = <<c[1], Max(c[2] - 20, 10), Max(Min(c[3] - 70, 25), 15)>>]_vars

\* C26: in every reachable state, for every seed role and colour, the
\* palettes after applying the same updateThemeColor edit twice in a row are
\* the palettes after applying it once
C26_UpdateThemeColorIdempotent ==
    \A e \in EditInputs :
        e[1] \in SeedRoles =>
            LET hslValue == hexToHSL(e[2])
                once == UpdateThemeColorPalettes(e[1], hslValue, colors, darkColors,
                                                 isDarkMode)
                twice == UpdateThemeColorPalettes(e[1], hslValue, once.colors,
                                                  once.darkColors, isDarkMode)
            IN  twice = once

\* C27: editing secondary or accent with updateThemeColor leaves chart1..
\* chart5 of both palettes as they were
C27_SecondaryAccentKeepCharts ==
    [][(Called("updateThemeColor") /\ last'.key \in {"secondary", "accent"}
          /\ ~last'.raised)
         => \A k \in ChartRoles : /\ colors'[k] = colors[k]
                                  /\ darkColors'[k] = darkColors[k]]_vars

\* C28: after setCurrentTheme(name) for an existing preset, the light
\* palette's background, foreground, primary, secondary and accent are the
\* HSL conversions of the preset's hex colours for those roles
C28_PresetSeedsTakeEffect ==
    [][(Called("setCurrentTheme") /\ ~last'.raised
          /\ "colors" \in DOMAIN FindTheme(predefinedThemes, last'.key))
         => LET theme == FindTheme(predefinedThemes, last'.key)
            IN  \A k \in SeedRoles \cap DOMAIN theme.colors :
                    colors'[k] = hexToHSL(theme.colors[k])]_vars

\* C29: after generateHarmonyColors with base colour (h, s, l), light primary
\* is (h, min(s+20,85), l clamped to [45,60]); light secondary has hue h,
\* saturation in [5,25] and lightness min(primaryL+40,96); light accent has
\* hue h, saturation in [30,55] and lightness min(primaryL+30,88); light
\* background is "0 0% 100%" and foreground is (h, 10, 4); dark background
\* has hue h and lightness in [8,10]; dark primary has hue h and lightness at
\* most 60
C29_HarmonySeedFormulas ==
    last.op = "generateHarmonyColors" =>
        LET h == ParseIntHue(last.value)
            s == last.value[2]
            l == last.value[3]
            primaryL == IF l < 45 THEN 45 ELSE IF l > 60 THEN 60 ELSE l
        IN  /\ colors.primary = <<h, IF s + 20 < 85 THEN s + 20 ELSE 85, primaryL>>
            /\ colors.secondary[1] = h
            /\ colors.secondary[2] \in 5..25
            /\ colors.secondary[3] = (IF primaryL + 40 < 96 THEN primaryL + 40 ELSE 96)
            /\ colors.accent[1] = h
            /\ colors.accent[2] \in 30..55
            /\ colors.accent[3] = (IF primaryL + 30 < 88 THEN primaryL + 30 ELSE 88)
            /\ colors.background = <<0, 0, 100>>
            /\ colors.foreground = <<h, 10, 4>>
            /\ darkColors.background[1] = h
            /\ darkColors.background[3] \in 8..10
            /\ darkColors.primary[1] = h
            /\ darkColors.primary[3] <= 60

\* a harmony has been generated from a base colour darker than the primary
\* range, so that the lightness clamp has acted
C29_Witness ==
    /\ last.op = "generateHarmonyColors"
    /\ last.value[3] < 45
    /\ colors.primary[3] = 45
    /\ colors.secondary[3] = 85
    /\ darkColors.background[3] = 10

\* C30: updateThemeColor on a role other than background, foreground,
\* primary, secondary and accent stores the new colour verbatim under that
\* key in both palettes and changes no other role of either, in both modes
C30_OtherRoleStoredVerbatim ==
    [][(Called("updateThemeColor") /\ last'.key \notin SeedRoles /\ ~last'.raised)
         => /\ colors' = [colors EXCEPT ![last'.key] = last'.value]
            /\ darkColors' = [darkColors EXCEPT ![last'.key] = last'.value]]_vars

\* destructive has been edited in dark mode and both palettes hold the new
\* colour, which is not the built-in one
C30_Witness ==
    /\ last.op = "updateThemeColor"
    /\ last.key = "destructive"
    /\ ~last.raised
    /\ isDarkMode
    /\ colors.destructive = last.value
    /\ darkColors.destructive = last.value
    /\ last.value # defaultDarkColors.destructive
    /\ last.value # defaultColors.destructive

=============================================================================
